---------------------------- MODULE Spec2Model ----------------------------
(***************************************************************************)
(* Binning and stereological correction of vesicle size distributions      *)
(* (src/code/stereology.py) and the registry of corrections kept by        *)
(* Sample and Image (src/code/vesicle_analysis.py).                        *)
(*                                                                         *)
(* Numbers.  A real value is a rational [n |-> numerator, d |->            *)
(* denominator] in lowest terms with d > 0.  Bin construction, counting    *)
(* and means are carried out exactly.  The results of the unfolding stage  *)
(* (10 ** x, sqrt, reciprocals and the products built on them) are         *)
(* rounded down to FracBits binary places after each operation, as         *)
(* floating point rounds after each operation, only coarser.               *)
(* Arrays are functions over 0..len-1, keeping the indices of the source;  *)
(* an array that is not assigned yet is the empty function.                *)
(***************************************************************************)
EXTENDS Integers, Sequences, FiniteSets, TLC

\* ------------------------------------------------------------------ bounds
MaxLen == 3
MaxRadius == 2
MaxRoi == 2
MaxNbins == 3
FracBits == 10
MaxCalls == 2

\* -------------------------------------------------------- exact arithmetic
Abs(x) == IF x < 0 THEN -x ELSE x

RECURSIVE GCD(_, _)
GCD(a, b) == IF b = 0 THEN Abs(a) ELSE GCD(b, a % Abs(b))

LCM(a, b) == (a \div GCD(a, b)) * b

Rat(n, d) ==
    LET g == GCD(n, d)
        s == IF d < 0 THEN -1 ELSE 1
    IN  [n |-> s * (n \div g), d |-> s * (d \div g)]

FromInt(k) == [n |-> k, d |-> 1]

Zero == FromInt(0)

One == FromInt(1)

RAdd(a, b) ==
    LET l == LCM(a.d, b.d)
    IN  Rat(a.n * (l \div a.d) + b.n * (l \div b.d), l)

RNeg(a) == [n |-> -a.n, d |-> a.d]

RSub(a, b) == RAdd(a, RNeg(b))

RMul(a, b) ==
    LET g1 == GCD(a.n, b.d)
        g2 == GCD(b.n, a.d)
    IN  IF a.n = 0 \/ b.n = 0 THEN Zero
        ELSE Rat((a.n \div g1) * (b.n \div g2), (a.d \div g2) * (b.d \div g1))

RInv(a) == Rat(a.d, a.n)

RDiv(a, b) == RMul(a, RInv(b))

RLt(a, b) ==
    LET l == LCM(a.d, b.d)
    IN  a.n * (l \div a.d) < b.n * (l \div b.d)

RLe(a, b) == ~RLt(b, a)

RAbs(a) == [n |-> Abs(a.n), d |-> a.d]

RSquare(a) == RMul(a, a)

\* ------------------------------------------------------ rounded arithmetic
Grid == 2 ^ FracBits

\* floor((q + r / d) * 2^bits), by binary long division (no wide product)
RECURSIVE LongDiv(_, _, _, _)
LongDiv(q, r, d, bits) ==
    IF bits = 0 THEN q
    ELSE IF 2 * r >= d THEN LongDiv(2 * q + 1, 2 * r - d, d, bits - 1)
         ELSE LongDiv(2 * q, 2 * r, d, bits - 1)

FloorScaled(a, bits) == LongDiv(a.n \div a.d, a.n % a.d, a.d, bits)

\* a rounded down to the grid of FracBits binary places
Fl(a) == Rat(FloorScaled(a, FracBits), Grid)

FMul(a, b) == Fl(RMul(a, b))

FInv(a) == Fl(RInv(a))

RECURSIVE ISqrtSearch(_, _, _)
ISqrtSearch(m, lo, hi) ==
    IF lo >= hi THEN lo
    ELSE LET mid == (lo + hi + 1) \div 2
         IN  IF mid <= m \div mid THEN ISqrtSearch(m, mid, hi)
             ELSE ISqrtSearch(m, lo, mid - 1)

ISqrt(m) == IF m <= 0 THEN 0 ELSE ISqrtSearch(m, 1, m)

\* np.sqrt, rounded down to the grid
Sqrt(a) == Rat(ISqrt(FloorScaled(a, 2 * FracBits)), Grid)

\* 10 ** (-k / 10) for k = 0..9, to four decimals
TenthPowers == <<10000, 7943, 6310, 5012, 3981, 3162, 2512, 1995, 1585, 1259>>

\* 10 ** (-0.1 * k), rounded down to the grid
Pow10Neg(k) == Fl(Rat(TenthPowers[(k % 10) + 1], 10000 * (10 ^ (k \div 10))))

Ln2 == Fl(Rat(6931, 10000))

Ln10 == Fl(Rat(23026, 10000))

\* ln on [1, 2): 2 * (z + z^3 / 3) with z = (a - 1) / (a + 1)
LnUnit(a) ==
    LET z == Fl(RDiv(RSub(a, One), RAdd(a, One)))
        z3 == FMul(FMul(z, z), z)
    IN  Fl(RMul(FromInt(2), RAdd(z, RMul(z3, Rat(1, 3)))))

\* a >= 2^k, by integer division (no wide product)
GeqPow2(a, k) ==
    IF k >= 0 THEN a.n \div (2 ^ k) >= a.d
    ELSE LET q == a.d \div (2 ^ (-k))
             r == a.d % (2 ^ (-k))
         IN  ~(q > a.n \/ (q = a.n /\ r > 0))

\* the k with 2^k <= a < 2^(k+1), for a > 0
Log2Floor(a) ==
    CHOOSE k \in -30 .. 30 : GeqPow2(a, k) /\ (k = 30 \/ ~GeqPow2(a, k + 1))

\* ln(a) = k * ln(2) + ln(a / 2^k), for a > 0
LnPos(a) ==
    LET k == Log2Floor(a)
        unit == IF k >= 0 THEN RMul(a, Rat(1, 2 ^ k)) ELSE RMul(a, FromInt(2 ^ (-k)))
    IN  RAdd(RMul(FromInt(k), Ln2), LnUnit(unit))

\* ------------------------------------------------------------ numpy arrays
Range(len) == 0 .. (len - 1)

Unset == <<>>

Zeros(len) == [k \in Range(len) |-> Zero]

RECURSIVE SumOver(_, _)
SumOver(f, S) ==
    IF S = {} THEN Zero
    ELSE LET k == CHOOSE k \in S : TRUE
         IN  RAdd(f[k], SumOver(f, S \ {k}))

RECURSIVE MaxOver(_, _)
MaxOver(f, S) ==
    LET k == CHOOSE k \in S : TRUE
    IN  IF S = {k} THEN f[k]
        ELSE LET m == MaxOver(f, S \ {k})
             IN  IF RLt(m, f[k]) THEN f[k] ELSE m

RECURSIVE MinOver(_, _)
MinOver(f, S) ==
    LET k == CHOOSE k \in S : TRUE
    IN  IF S = {k} THEN f[k]
        ELSE LET m == MinOver(f, S \ {k})
             IN  IF RLt(f[k], m) THEN f[k] ELSE m

NpMax(a) == MaxOver(a, DOMAIN a)

NpMin(a) == MinOver(a, DOMAIN a)

NpMean(a, S) == RDiv(SumOver(a, S), FromInt(Cardinality(S)))


\* ------------------------------------------------------------ program data
Methods == {"ChengLemlich", "SahagianProussevitch", "Saltikov"}

LengthTypes == {"radius", "diameter"}

\* the fixed kernel of Saltikov.to_nv, in units of 1e-4
coeff == <<16461, -4561, -1162, -415, -173, -79, -38, -18, -10, -3, -2, -2>>

Coeff(k) == Rat(coeff[k + 1], 10000)

\* image_data['radius'] and image_data['diameter'] = 2 * radius
Column(radius, length_type) ==
    [p \in DOMAIN radius |->
        FromInt(IF length_type = "diameter" THEN 2 * radius[p] ELSE radius[p])]

\* all radius columns of 1..MaxLen vesicles with radii in 1..MaxRadius
RadiusColumns == UNION {[Range(len) -> 1 .. MaxRadius] : len \in 1 .. MaxLen}

ExpectedConvention(m) == IF m = "ChengLemlich" THEN "radius" ELSE "diameter"

StrategyParams(m, lt, nb) ==
    [bin_method  |-> IF m = "SahagianProussevitch" THEN "geometric" ELSE "linear",
     hbar_method |-> IF m = "SahagianProussevitch" THEN "bin_center" ELSE "mean",
     length_type |-> lt,
     nbins       |-> nb,
     normalized  |-> FALSE]

Advisory(kind, arg) == [kind |-> kind, arg |-> arg]

\* ------------------------------------------------------------------- Bins
\* Bins.__init__: norm and the (possibly normalized) measurements
BinsNorm(v, p) == IF p.normalized THEN NpMax(v) ELSE One

BinsVesicles(v, p) ==
    IF p.normalized THEN [q \in DOMAIN v |-> RDiv(v[q], NpMax(v))] ELSE v

\* np.linspace(start, stop, num): start + k * step, the last set to stop
Linspace(start, stop, num) ==
    LET step == RDiv(RSub(stop, start), FromInt(num - 1))
    IN  [k \in Range(num) |->
            IF k = num - 1 THEN stop ELSE RAdd(start, RMul(FromInt(k), step))]

\* linear edges without the margins 1.0000001 and 0.9999999; C5 tells the
\* edges of the source from these
LinearEdges_NoMargin(v, nb) == Linspace(NpMax(v), NpMin(v), nb + 1)

LinearEdges(v, nb) ==
    Linspace(RMul(NpMax(v), Rat(10000001, 10000000)),
             RMul(NpMin(v), Rat(9999999, 10000000)),
             nb + 1)

GeometricEdges(v, nb) == [k \in Range(nb + 1) |-> RMul(NpMax(v), Pow10Neg(k))]

BinEdges(v, p) ==
    IF p.bin_method = "linear" THEN LinearEdges(v, p.nbins)
    ELSE GeometricEdges(v, p.nbins)

BinWidths(edges) ==
    [k \in Range(Cardinality(DOMAIN edges) - 1) |->
        RAbs(RSub(edges[k + 1], edges[k]))]

BinCenters(edges, widths) ==
    [k \in DOMAIN widths |-> RSub(edges[k], RDiv(widths[k], FromInt(2)))]

\* numpy's check of the bins: 1 non-decreasing, -1 non-increasing, 0 neither
Monotonicity(bins) ==
    LET pairs == {k \in DOMAIN bins : k + 1 \in DOMAIN bins}
    IN  IF \A k \in pairs : RLe(bins[k], bins[k + 1]) THEN 1
        ELSE IF \A k \in pairs : RLe(bins[k + 1], bins[k]) THEN -1
        ELSE 0

\* np.searchsorted(sorted, x, side='left'): the number of entries below x
SearchSortedLeft(bins, x) == Cardinality({k \in DOMAIN bins : RLt(bins[k], x)})

\* np.digitize with right=False: the number of entries above x for decreasing
\* bins; C3 tells the digitization of the source from this one
Digitize_RightFalse(x, bins) ==
    IF Monotonicity(bins) = -1
    THEN Cardinality({k \in DOMAIN bins : RLt(x, bins[k])})
    ELSE Cardinality({k \in DOMAIN bins : RLe(bins[k], x)})

\* np.digitize(x, bins, right=True) for monotonic bins
Digitize(x, bins) ==
    IF Monotonicity(bins) = -1
    THEN Cardinality(DOMAIN bins) - SearchSortedLeft(bins, x)
    ELSE SearchSortedLeft(bins, x)

BinIndex(x, bins) == Digitize(x, bins) - 1

\* the positions of the measurements whose index is k: self.ind == k
Members(indices, k) == {q \in DOMAIN indices : indices[q] = k}

CountIn(indices, k) == Cardinality(Members(indices, k))

IntMaxOf(S) == CHOOSE m \in S : \A x \in S : x <= m

OutOfRange(indices, nb) == {q \in DOMAIN indices : indices[q] >= nb}

\* area densities that count the indices >= nb in the last bin; C4 tells the
\* densities of the source from these
ComputeNa_Clipped(indices, nb, area) ==
    [k \in Range(nb) |->
        Rat(CountIn(indices, k)
              + (IF k = nb - 1 THEN Cardinality(OutOfRange(indices, nb)) ELSE 0),
            area)]

ComputeNa(indices, nb, area) ==
    [k \in Range(nb) |-> Rat(CountIn(indices, k), area)]

\* one iteration of the loop of compute_hbar: the value for bin k
HbarEmpty(v, indices, k) == ~(\E q \in Members(indices, k) : v[q].n # 0)

HbarValue(v, indices, centers, k) ==
    IF HbarEmpty(v, indices, k) THEN centers[k]
    ELSE NpMean(v, Members(indices, k))


\* ------------------------------------------------------------ corrections
\* SahagianProussevitch.intersection_probabilities, entry k
InterProb(edges, k) ==
    FMul(FInv(edges[0]),
         RSub(Sqrt(RSub(RSquare(edges[0]), RSquare(edges[k + 1]))),
              Sqrt(RSub(RSquare(edges[0]), RSquare(edges[k])))))

\* a[idx] as numpy reads it: a negative index counts from the end
InBounds(a, idx) ==
    LET len == Cardinality(DOMAIN a) IN idx >= -len /\ idx < len

NpGet(a, idx) == a[idx % Cardinality(DOMAIN a)]

\* the indices read by the inner loop of SahagianProussevitch.to_nv
SP_ProbIndex(ii, jj) == jj + 1

SP_HbarIndex(ii, jj) == jj + 1

\* the index ii - jj, which reaches the entry being solved; C9 tells the index
\* of the source from it
SP_NvIndex_Unshifted(ii, jj) == ii - jj

SP_NvIndex(ii, jj) == ii - jj - 1

SP_Term(prob, h, v, ii, jj) ==
    FMul(FMul(NpGet(prob, SP_ProbIndex(ii, jj)), NpGet(h, SP_HbarIndex(ii, jj))),
         NpGet(v, SP_NvIndex(ii, jj)))

\* the solution without the intersection probability of the largest class; C2
\* tells the solution of the source from it
SP_Solve_NoProb(prob, h, area_density, prev, ii) ==
    FMul(FInv(h[ii]), RSub(area_density[ii], prev))

SP_Solve(prob, h, area_density, prev, ii) ==
    FMul(FInv(FMul(prob[0], h[ii])), RSub(area_density[ii], prev))

\* the inner loop of Saltikov.to_nv from lag k on: coeff[k] fails past the kernel
RECURSIVE KernelAcc(_, _, _, _)
KernelAcc(area_density, ii, k, acc) ==
    IF k > ii THEN [exc |-> "none", val |-> acc]
    ELSE IF k >= Len(coeff) THEN [exc |-> "IndexError", val |-> acc]
    ELSE KernelAcc(area_density, ii, k + 1,
                   RAdd(acc, RMul(Coeff(k), area_density[ii - k])))

KernelSum(area_density, ii) ==
    KernelAcc(area_density, ii, 1, RMul(Coeff(0), area_density[ii]))

Saltikov_Solve(h, na_sum, ii) == FMul(FInv(h[ii]), na_sum)

ChengLemlich_Solve(area_density, h, k) == Fl(RDiv(area_density[k], h[k]))

\* VSD.to_lnn.  The divisor is m * 10^e; n spans more orders of magnitude than
\* the grid holds and is kept as the quotient num / den * 10^e
LnnDivisor(widths, nrm, lt, k) ==
    [m |-> RMul(RMul(widths[k], nrm),
                IF lt # "diameter" THEN FromInt(2) ELSE One),
     e |-> -3]

LnnN(v, widths, nrm, lt, k) ==
    LET div == LnnDivisor(widths, nrm, lt, k)
    IN  [num |-> v[k], den |-> div.m, e |-> 9 - div.e]

\* np.log: nan below zero, -inf at zero
NpLog(x) ==
    IF x.num.n < 0 THEN [kind |-> "nan", val |-> Zero]
    ELSE IF x.num.n = 0 THEN [kind |-> "-inf", val |-> Zero]
    ELSE [kind |-> "finite",
          val |-> RAdd(RSub(LnPos(x.num), LnPos(x.den)),
                       RMul(FromInt(x.e), Ln10))]

\* ------------------------------------------------------------------ state
VARIABLES
    image_radius,   \* the radius column of image_data
    roi_area,       \* the region-of-interest area of the Sample / Image
    method,         \* the correction class being constructed
    length_type,    \* argument length_type
    nbins,          \* argument nbins
    pc,             \* the statement of the constructor to run next
    exc,            \* the exception raised by the running operation, or "none"
    call,           \* the public operation invoked last
    attrs,          \* the attribute names set on the correction instance
    params,         \* self.params
    norm,           \* bins.norm
    vesicles,       \* bins.vesicles
    bin_edges, bin_widths, bin_centers,
    ind,            \* bins.ind
    na, hbar,       \* bins.na, bins.hbar
    inter_prob,     \* self.inter_prob
    nv, n, lnn,     \* self.nv, self.n, self.lnn
    advisories,     \* the warnings emitted so far, in order
    i, j, previous, \* the loop variables of compute_hbar and to_nv
    reads,          \* the array entries read by SahagianProussevitch.to_nv
    registry,       \* vsd_num, vsd_index, vsd of the Sample and of the Image
    latest,         \* per owner and key, the correction of the latest call
    ncalls          \* the number of apply_vsd_corr calls made

sampleVars == <<image_radius, roi_area>>

argVars == <<method, length_type, nbins>>

binVars == <<params, norm, vesicles, bin_edges, bin_widths, bin_centers>>

loopVars == <<i, j, previous, reads>>

outVars == <<inter_prob, nv, n, lnn>>

regVars == <<registry, latest, ncalls>>

vars == <<sampleVars, argVars, pc, exc, call, attrs, binVars, ind, na, hbar,
          outVars, advisories, loopVars, regVars>>

Owners == {"Sample", "Image"}

Keys == {"a", "b"}

EmptyRegistry == [vsd_num |-> 0, vsd_index |-> Unset, vsd |-> Unset]

\* the state of a constructor call that has run no statement yet
Fresh ==
    /\ exc = "none"
    /\ call = [op |-> "ctor", voi |-> 0]
    /\ attrs = {}
    /\ params = Unset /\ norm = Zero /\ vesicles = Unset
    /\ bin_edges = Unset /\ bin_widths = Unset /\ bin_centers = Unset
    /\ ind = Unset /\ na = Unset /\ hbar = Unset
    /\ inter_prob = Unset /\ nv = Unset /\ n = Unset /\ lnn = Unset
    /\ advisories = <<>>
    /\ i = 0 /\ j = 0 /\ previous = Zero /\ reads = {}

NoCalls ==
    /\ registry = [o \in Owners |-> EmptyRegistry]
    /\ latest = [o \in Owners |-> [k \in Keys |-> 0]]
    /\ ncalls = 0

\* the bin counts tried: the small ones, and one more than the kernel is long
NbinsArgs == (1 .. MaxNbins) \cup {Len(coeff) + 1}

\* the names passed as method: the three classes, and a name stereology lacks
MethodArgs == Methods \cup {"Histogram"}

\* a correction is being constructed over the data of one image
Init ==
    /\ image_radius \in RadiusColumns
    /\ roi_area \in 1 .. MaxRoi
    /\ method \in Methods
    /\ length_type \in LengthTypes
    /\ nbins \in NbinsArgs
    /\ pc = "ctor"
    /\ Fresh
    /\ NoCalls

\* an order that goes from the densities straight to to_lnn; C8 tells the
\* order of the source from it
AfterDensities_SkipToNv(m) == "to_lnn"

\* the order of the statements of the constructors
AfterDensities(m) ==
    IF m = "SahagianProussevitch" THEN "intersection_probabilities" ELSE "to_nv"

AfterToNv == "to_lnn"

Raise(e) == pc' = "raised" /\ exc' = e

\* ------------------------------------------------------------- constructor
\* <Strategy>.__init__: the advisory on the measurement convention
Ctor_CheckConvention ==
    /\ pc = "ctor"
    /\ advisories' =
         IF length_type # ExpectedConvention(method)
         THEN Append(advisories, Advisory("convention", 0))
         ELSE advisories
    /\ pc' = "set_params"
    /\ UNCHANGED <<sampleVars, argVars, exc, call, attrs, binVars, ind, na, hbar,
                   outVars, loopVars, regVars>>

\* <Strategy>.__init__: self.params = {...}
Ctor_SetParams ==
    /\ pc = "set_params"
    /\ params' = StrategyParams(method, length_type, nbins)
    /\ attrs' = attrs \cup {"params"}
    /\ pc' = "bins_init"
    /\ UNCHANGED <<sampleVars, argVars, exc, call, norm, vesicles, bin_edges,
                   bin_widths, bin_centers, ind, na, hbar, outVars, advisories,
                   loopVars, regVars>>

\* VSD.__init__ up to Bins(...): Bins.__init__ and _create_bins
Bins_init ==
    /\ pc = "bins_init"
    /\ LET v == Column(image_radius, length_type)
           bv == BinsVesicles(v, params)
           edges == BinEdges(bv, params)
       IN  /\ norm' = BinsNorm(v, params)
           /\ vesicles' = bv
           /\ bin_edges' = edges
           /\ bin_widths' = BinWidths(edges)
           /\ bin_centers' = BinCenters(edges, BinWidths(edges))
    /\ params' = [bin_order |-> "desending"] @@ params
    /\ attrs' = attrs \cup {"vesicles", "bins"}
    /\ pc' = "bin_data"
    /\ UNCHANGED <<sampleVars, argVars, exc, call, ind, na, hbar, outVars,
                   advisories, loopVars, regVars>>

\* Bins.bin_data: np.digitize(...) - 1
BinData ==
    /\ pc = "bin_data"
    /\ IF Monotonicity(bin_edges) = 0
       THEN Raise("ValueError") /\ UNCHANGED ind
       ELSE /\ ind' = [q \in DOMAIN vesicles |-> BinIndex(vesicles[q], bin_edges)]
            /\ pc' = "check_inrange"
            /\ UNCHANGED exc
    /\ UNCHANGED <<sampleVars, argVars, call, attrs, binVars, na, hbar, outVars,
                   advisories, loopVars, regVars>>

\* Bins.__check_inrange
CheckInrange ==
    /\ pc = "check_inrange"
    /\ advisories' =
         IF IntMaxOf({ind[q] : q \in DOMAIN ind}) >= params.nbins
         THEN Append(advisories,
                     Advisory("range", Cardinality(OutOfRange(ind, params.nbins))))
         ELSE advisories
    /\ pc' = "correction_init"
    /\ UNCHANGED <<sampleVars, argVars, exc, call, attrs, binVars, ind, na, hbar,
                   outVars, loopVars, regVars>>

\* VSDCorrection.__init__: roi_area and the zeroed nv
VSDCorrection_init ==
    /\ pc = "correction_init"
    /\ nv' = Zeros(Cardinality(DOMAIN bin_centers))
    /\ attrs' = attrs \cup {"roi_area", "nv"}
    /\ pc' = "compute_na"
    /\ UNCHANGED <<sampleVars, argVars, exc, call, binVars, ind, na, hbar,
                   inter_prob, n, lnn, advisories, loopVars, regVars>>

\* Bins.compute_na
Bins_compute_na ==
    /\ pc = "compute_na"
    /\ na' = ComputeNa(ind, params.nbins, roi_area)
    /\ pc' = "compute_hbar"
    /\ UNCHANGED <<sampleVars, argVars, exc, call, attrs, binVars, ind, hbar,
                   outVars, advisories, loopVars, regVars>>

\* Bins.compute_hbar up to its loop
Bins_compute_hbar ==
    /\ pc = "compute_hbar"
    /\ IF params.hbar_method = "bin_center"
       THEN /\ hbar' = bin_centers
            /\ pc' = AfterDensities(method)
       ELSE /\ hbar' = Zeros(Cardinality(DOMAIN bin_centers))
            /\ pc' = "compute_hbar_loop"
    /\ i' = 0 /\ j' = 0 /\ previous' = Zero
    /\ UNCHANGED <<sampleVars, argVars, exc, call, attrs, binVars, ind, na,
                   outVars, advisories, reads, regVars>>

\* one iteration of the loop of Bins.compute_hbar
Bins_compute_hbar_step ==
    /\ pc = "compute_hbar_loop"
    /\ i < params.nbins
    /\ hbar' = [hbar EXCEPT ![i] = HbarValue(vesicles, ind, bin_centers, i)]
    /\ advisories' =
         IF HbarEmpty(vesicles, ind, i)
         THEN Append(advisories, Advisory("empty_bin", i))
         ELSE advisories
    /\ i' = i + 1
    /\ UNCHANGED <<sampleVars, argVars, pc, exc, call, attrs, binVars, ind, na,
                   outVars, j, previous, reads, regVars>>

Bins_compute_hbar_exit ==
    /\ pc = "compute_hbar_loop"
    /\ i >= params.nbins
    /\ pc' = AfterDensities(method)
    /\ i' = 0
    /\ UNCHANGED <<sampleVars, argVars, exc, call, attrs, binVars, ind, na, hbar,
                   outVars, advisories, j, previous, reads, regVars>>


\* SahagianProussevitch.intersection_probabilities
SP_intersection_probabilities ==
    /\ pc = "intersection_probabilities"
    /\ inter_prob' = [k \in Range(params.nbins) |-> InterProb(bin_edges, k)]
    /\ attrs' = attrs \cup {"inter_prob"}
    /\ pc' = "to_nv"
    /\ UNCHANGED <<sampleVars, argVars, exc, call, binVars, ind, na, hbar, nv, n,
                   lnn, advisories, loopVars, regVars>>

\* ChengLemlich.to_nv
ChengLemlich_to_nv ==
    /\ pc = "to_nv"
    /\ method = "ChengLemlich"
    /\ nv' = [k \in DOMAIN na |-> ChengLemlich_Solve(na, hbar, k)]
    /\ pc' = AfterToNv
    /\ UNCHANGED <<sampleVars, argVars, exc, call, attrs, binVars, ind, na, hbar,
                   inter_prob, n, lnn, advisories, loopVars, regVars>>

ReadOf(arr, idx, a) ==
    [arr |-> arr, idx |-> idx, at |-> i,
     val |-> IF InBounds(a, idx) THEN NpGet(a, idx) ELSE Zero]

\* SahagianProussevitch.to_nv: one iteration of the loop over j
SP_to_nv_inner ==
    /\ pc = "to_nv"
    /\ method = "SahagianProussevitch"
    /\ i < params.nbins
    /\ j < i
    /\ reads' = reads \cup {ReadOf("inter_prob", SP_ProbIndex(i, j), inter_prob),
                            ReadOf("hbar", SP_HbarIndex(i, j), hbar),
                            ReadOf("nv", SP_NvIndex(i, j), nv)}
    /\ IF /\ InBounds(inter_prob, SP_ProbIndex(i, j))
          /\ InBounds(hbar, SP_HbarIndex(i, j))
          /\ InBounds(nv, SP_NvIndex(i, j))
       THEN /\ previous' = RAdd(previous, SP_Term(inter_prob, hbar, nv, i, j))
            /\ j' = j + 1
            /\ UNCHANGED <<pc, exc>>
       ELSE Raise("IndexError") /\ UNCHANGED <<previous, j>>
    /\ UNCHANGED <<sampleVars, argVars, call, attrs, binVars, ind, na, hbar,
                   outVars, advisories, i, regVars>>

\* SahagianProussevitch.to_nv: the assignment of nv[i] that ends iteration i
SP_to_nv_assign ==
    /\ pc = "to_nv"
    /\ method = "SahagianProussevitch"
    /\ i < params.nbins
    /\ j >= i
    /\ nv' = [nv EXCEPT ![i] = SP_Solve(inter_prob, hbar, na, previous, i)]
    /\ i' = i + 1 /\ j' = 0 /\ previous' = Zero
    /\ UNCHANGED <<sampleVars, argVars, pc, exc, call, attrs, binVars, ind, na,
                   hbar, inter_prob, n, lnn, advisories, reads, regVars>>

\* Saltikov.to_nv: iteration i of the loop over the bins
Saltikov_to_nv_step ==
    /\ pc = "to_nv"
    /\ method = "Saltikov"
    /\ i < params.nbins
    /\ LET s == KernelSum(na, i)
       IN  IF s.exc = "none"
           THEN /\ nv' = [nv EXCEPT ![i] = Saltikov_Solve(hbar, s.val, i)]
                /\ i' = i + 1
                /\ UNCHANGED <<pc, exc>>
           ELSE Raise(s.exc) /\ UNCHANGED <<nv, i>>
    /\ UNCHANGED <<sampleVars, argVars, call, attrs, binVars, ind, na, hbar,
                   inter_prob, n, lnn, advisories, j, previous, reads, regVars>>

\* the end of the loop over the bins of either to_nv
to_nv_exit ==
    /\ pc = "to_nv"
    /\ method \in {"SahagianProussevitch", "Saltikov"}
    /\ i >= params.nbins
    /\ pc' = AfterToNv
    /\ UNCHANGED <<sampleVars, argVars, exc, call, attrs, binVars, ind, na, hbar,
                   outVars, advisories, loopVars, regVars>>

\* VSD.to_lnn
VSD_to_lnn ==
    /\ pc = "to_lnn"
    /\ n' = [k \in DOMAIN nv |->
                LnnN(nv, bin_widths, norm, params.length_type, k)]
    /\ lnn' = [k \in DOMAIN nv |->
                NpLog(LnnN(nv, bin_widths, norm, params.length_type, k))]
    /\ attrs' = attrs \cup {"n", "lnn"}
    /\ pc' = "done"
    /\ UNCHANGED <<sampleVars, argVars, exc, call, binVars, ind, na, hbar,
                   inter_prob, nv, advisories, loopVars, regVars>>

\* VSD.compute_nv on the constructed instance: it reads self.bin_centers and
\* self.ind, which are attributes of self.bins, not of self
VSD_compute_nv(voi_area) ==
    /\ pc = "done"
    /\ call.op = "ctor"
    /\ call' = [op |-> "compute_nv", voi |-> voi_area]
    /\ IF "bin_centers" \in attrs /\ "ind" \in attrs
       THEN /\ nv' = [k \in Range(params.nbins) |->
                        Rat(CountIn(ind, k), voi_area)]
            /\ UNCHANGED exc
       ELSE /\ exc' = "AttributeError"
            /\ UNCHANGED nv
    /\ UNCHANGED <<sampleVars, argVars, pc, attrs, binVars, ind, na, hbar,
                   inter_prob, n, lnn, advisories, loopVars, regVars>>

Next ==
    \/ Ctor_CheckConvention
    \/ Ctor_SetParams
    \/ Bins_init
    \/ BinData
    \/ CheckInrange
    \/ VSDCorrection_init
    \/ Bins_compute_na
    \/ Bins_compute_hbar
    \/ Bins_compute_hbar_step
    \/ Bins_compute_hbar_exit
    \/ SP_intersection_probabilities
    \/ ChengLemlich_to_nv
    \/ SP_to_nv_inner
    \/ SP_to_nv_assign
    \/ Saltikov_to_nv_step
    \/ to_nv_exit
    \/ VSD_to_lnn
    \/ \E voi_area \in 1 .. MaxRoi : VSD_compute_nv(voi_area)

Spec == Init /\ [][Next]_vars


\* ---------------------------------------------------------------- registry
\* the exception that getattr(stereology, m)(...) ends with, or "none"
CtorOutcome(radius, area, m, lt, nb) ==
    IF m \notin Methods THEN "AttributeError"
    ELSE LET p == StrategyParams(m, lt, nb)
             v == BinsVesicles(Column(radius, lt), p)
             edges == BinEdges(v, p)
             indices == [q \in DOMAIN v |-> BinIndex(v[q], edges)]
             area_density == ComputeNa(indices, nb, area)
         IN  IF Monotonicity(edges) = 0 THEN "ValueError"
             ELSE IF /\ m = "Saltikov"
                     /\ \E k \in Range(nb) : KernelSum(area_density, k).exc # "none"
             THEN "IndexError"
             ELSE "none"

\* dict.update({key: value})
DictUpdate(dict, key, value) ==
    [k \in DOMAIN dict \cup {key} |-> IF k = key THEN value ELSE dict[k]]

\* list.append(item), the list a function over 0..len-1
ListAppend(list, item) ==
    [k \in Range(Cardinality(DOMAIN list) + 1) |->
        IF k \in DOMAIN list THEN list[k] ELSE item]

\* the registry after vsd_index.update(...), before the constructor runs
RegistryIndexed(r, key) ==
    [r EXCEPT !.vsd_index = DictUpdate(r.vsd_index, key, r.vsd_num)]

\* the registry after vsd.append(...) and vsd_num += 1
RegistryAppended(r, item) ==
    [r EXCEPT !.vsd = ListAppend(r.vsd, item), !.vsd_num = r.vsd_num + 1]

\* Sample.apply_vsd_corr and Image.apply_vsd_corr: the same statements
ApplyVsdCorr(o, key, m, lt, nb) ==
    /\ pc = "idle"
    /\ ncalls < MaxCalls
    /\ ncalls' = ncalls + 1
    /\ call' = [op |-> "apply_vsd_corr", voi |-> 0]
    /\ latest' = [latest EXCEPT ![o][key] = ncalls + 1]
    /\ LET outcome == CtorOutcome(image_radius, roi_area, m, lt, nb)
           indexed == RegistryIndexed(registry[o], key)
       IN  /\ exc' = outcome
           /\ registry' =
                [registry EXCEPT ![o] =
                    IF outcome = "none"
                    THEN RegistryAppended(indexed, [id |-> ncalls + 1])
                    ELSE indexed]
    /\ UNCHANGED <<sampleVars, argVars, pc, attrs, binVars, ind, na, hbar,
                   outVars, advisories, loopVars>>

Sample_apply_vsd_corr(key, m, lt, nb) == ApplyVsdCorr("Sample", key, m, lt, nb)

Image_apply_vsd_corr(key, m, lt, nb) == ApplyVsdCorr("Image", key, m, lt, nb)

\* a Sample holding one Image, no correction applied yet
InitRegistry ==
    /\ image_radius \in RadiusColumns
    /\ roi_area \in 1 .. MaxRoi
    /\ method = "none" /\ length_type = "none" /\ nbins = 0
    /\ pc = "idle"
    /\ Fresh
    /\ NoCalls

NextRegistry ==
    \E key \in Keys, m \in MethodArgs, lt \in LengthTypes, nb \in NbinsArgs :
        \/ Sample_apply_vsd_corr(key, m, lt, nb)
        \/ Image_apply_vsd_corr(key, m, lt, nb)

SpecRegistry == InitRegistry /\ [][NextRegistry]_vars


\* ------------------------------------------------------------- properties
Built == bin_edges # Unset

Assigned == ind # Unset

Geq(a, b) == RLe(b, a)

InBin(v, edges, k) == Geq(edges[k], v) /\ RLt(edges[k + 1], v)

\* C3: every measurement v with edge[N] < v <= edge[0] gets the unique index k
\* in 0..N-1 with edge[k] >= v > edge[k+1] (so v = edge[0] gets 0), every
\* measurement v <= edge[N] gets an index >= N, and no index is negative.
C3_BinAssignment ==
    Assigned =>
        \A q \in DOMAIN vesicles :
            LET v == vesicles[q]
            IN  /\ DOMAIN ind = DOMAIN vesicles
                /\ ind[q] >= 0
                /\ (RLt(bin_edges[nbins], v) /\ RLe(v, bin_edges[0])) =>
                      /\ ind[q] \in Range(nbins)
                      /\ InBin(v, bin_edges, ind[q])
                      /\ \A k \in Range(nbins) :
                            InBin(v, bin_edges, k) => k = ind[q]
                /\ RLe(v, bin_edges[nbins]) => ind[q] >= nbins
                /\ v = bin_edges[0] => ind[q] = 0

\* a measurement equal to edge[0] and one at or below edge[N] have been
\* assigned, over more than one bin
C3_Witness ==
    /\ Assigned
    /\ nbins > 1
    /\ \E q \in DOMAIN vesicles : vesicles[q] = bin_edges[0] /\ ind[q] = 0
    /\ \E q \in DOMAIN vesicles :
          RLe(vesicles[q], bin_edges[nbins]) /\ ind[q] >= nbins

InRange(indices, nb) == {q \in DOMAIN indices : indices[q] \in Range(nb)}

\* C4: after bin_data and compute_na, the sum over the bins of
\* na[k] * reference_area is the number of measurements whose index is in
\* 0..N-1; the measurements with an index >= N keep their entry of the index
\* array and are counted in no na[k].
C4_CountConservation ==
    na # Unset =>
        /\ DOMAIN na = Range(nbins)
        /\ DOMAIN ind = DOMAIN image_radius
        /\ SumOver([k \in Range(nbins) |-> RMul(na[k], FromInt(roi_area))],
                   Range(nbins))
             = FromInt(Cardinality(InRange(ind, nbins)))
        /\ \A k \in Range(nbins) :
              RMul(na[k], FromInt(roi_area)) = FromInt(CountIn(ind, k))

\* area densities computed while some measurement lies below the smallest edge
C4_Witness ==
    /\ na # Unset
    /\ OutOfRange(ind, nbins) # {}
    /\ InRange(ind, nbins) # {}
    /\ roi_area > 1

\* C5: for either bin method and any measurements (all equal included) the
\* builder yields N+1 strictly decreasing edges, so N contiguous bins with
\* width[k] = edge[k] - edge[k+1] > 0 and edge[k+1] < center[k] < edge[k].
C5_StrictlyDescendingEdges ==
    Built =>
        /\ DOMAIN bin_edges = Range(nbins + 1)
        /\ DOMAIN bin_widths = Range(nbins)
        /\ DOMAIN bin_centers = Range(nbins)
        /\ \A k \in Range(nbins) :
              /\ RLt(bin_edges[k + 1], bin_edges[k])
              /\ bin_widths[k] = RSub(bin_edges[k], bin_edges[k + 1])
              /\ RLt(Zero, bin_widths[k])
              /\ bin_centers[k] = RSub(bin_edges[k], RDiv(bin_widths[k], FromInt(2)))
              /\ RLt(bin_edges[k + 1], bin_centers[k])
              /\ RLt(bin_centers[k], bin_edges[k])

\* linear bins built over measurements that are all equal, more than one bin
C5_Witness ==
    /\ Built
    /\ params.bin_method = "linear"
    /\ Cardinality(DOMAIN vesicles) > 1
    /\ NpMax(vesicles) = NpMin(vesicles)
    /\ nbins > 1

\* ------------------------------------------------- the stages of a pipeline
\* Configured (1), Bins-Built (2), Densities-Computed (3), Volume-Corrected (4)
\* and Log-Transformed (5), read off the statement the constructor runs next
StageRank(p) ==
    IF p \in {"ctor", "set_params", "bins_init"} THEN 1
    ELSE IF p \in {"bin_data", "check_inrange", "correction_init", "compute_na",
                   "compute_hbar", "compute_hbar_loop"} THEN 2
    ELSE IF p \in {"intersection_probabilities", "to_nv"} THEN 3
    ELSE IF p = "to_lnn" THEN 4
    ELSE 5

Filled(a) == DOMAIN a = Range(nbins)

\* what a stage holds: the bins from stage 2 on, na and hbar from stage 3 on,
\* nv from stage 4 on and lnn in stage 5
StageHolds(rank, edges, area_density, h, v, l) ==
    /\ rank >= 2 <=> edges # Unset
    /\ rank >= 3 => Filled(area_density) /\ Filled(h)
    /\ rank >= 4 => Filled(v)
    /\ rank >= 5 <=> l # Unset
    /\ rank >= 5 => Filled(l)

StageStep ==
    /\ pc' # "raised" =>
          /\ StageRank(pc') - StageRank(pc) \in {0, 1}
          /\ StageHolds(StageRank(pc'), bin_edges', na', hbar', nv', lnn')
    /\ advisories' # advisories => pc' # "raised" /\ StageRank(pc') = StageRank(pc)

\* C8: a correction instance moves Configured -> Bins-Built -> Densities-Computed
\* -> Volume-Corrected -> Log-Transformed: every step keeps the stage or enters
\* the next one (so no stage is skipped, re-entered or reversed), each stage
\* holds the arrays it is named after, and a step that emits an advisory keeps
\* the stage.
C8_PipelineOrdering == [][StageStep]_vars

\* a construction that emitted advisories and reached Log-Transformed
C8_Witness ==
    /\ pc = "done"
    /\ call.op = "ctor"
    /\ Len(advisories) > 1
    /\ lnn # Unset

\* ------------------------------------------- geometric recursive unfolding
SP_Running == method = "SahagianProussevitch" /\ nv # Unset

\* the number of bins SahagianProussevitch.to_nv has solved
Solved == IF pc \in {"to_nv", "to_lnn", "done"} THEN i ELSE 0

\* sum over jj = 0..last of P[jj+1] * hbar[jj+1] * nv[k-jj-1]
RECURSIVE PreviousSum(_, _)
PreviousSum(k, last) ==
    IF last < 0 THEN Zero
    ELSE RAdd(PreviousSum(k, last - 1),
              FMul(FMul(inter_prob[last + 1], hbar[last + 1]), nv[k - last - 1]))

\* (na[k] - sum) / (P[0] * hbar[k])
Unfolded(k) ==
    FMul(FInv(FMul(inter_prob[0], hbar[k])), RSub(na[k], PreviousSum(k, k - 1)))

\* C9: SahagianProussevitch.to_nv solves the bins in the order 0..N-1; while
\* it computes nv[i] it reads only nv[m] with m < i, which hold their final
\* value, and only P[j+1] and hbar[j+1] with 1 <= j+1 <= i <= N-1, never an
\* index out of bounds; the entry just solved, and every entry when to_nv
\* returns, is
\* (na[i] - sum over j = 0..i-1 of P[j+1]*hbar[j+1]*nv[i-j-1]) / (P[0]*hbar[i]).
C9_ForwardDependency ==
    SP_Running =>
        /\ pc # "raised"
        /\ Solved \in 0 .. nbins
        /\ \A r \in reads :
              /\ r.at \in Range(nbins)
              /\ r.arr = "nv" => r.idx \in Range(r.at) /\ r.val = nv[r.idx]
              /\ r.arr \in {"inter_prob", "hbar"} => r.idx \in 1 .. r.at
              /\ r.at <= Solved
        /\ \A k \in Range(nbins) : k >= Solved => nv[k] = Zero
        /\ (pc = "to_nv" /\ Solved > 0 /\ j = 0) =>
              nv[Solved - 1] = Unfolded(Solved - 1)
        /\ pc = "to_lnn" => \A k \in Range(nbins) : nv[k] = Unfolded(k)

\* three bins solved, the last from two solved entries that are not zero
C9_Witness ==
    /\ SP_Running
    /\ pc = "done"
    /\ nbins = 3
    /\ \E r \in reads : r.arr = "nv" /\ r.at = 2 /\ r.idx = 1 /\ r.val # Zero
    /\ \E r \in reads : r.arr = "nv" /\ r.at = 2 /\ r.idx = 0 /\ r.val # Zero

\* x is y up to the relative error rel
Close(x, y, rel) == RLe(RAbs(RSub(x, y)), RMul(rel, RAbs(y)))

Tolerance == Rat(1, 16)

SP_OneBin ==
    /\ method = "SahagianProussevitch"
    /\ nbins = 1
    /\ pc \in {"to_lnn", "done"}

\* C2 as stated: with N = 1 bin the geometric recursive unfolding yields
\* nv[0] = na[0] / hbar[0], that is nv[0] * hbar[0] = na[0] (up to rounding).
C2_OneBinAsStated == SP_OneBin => Close(FMul(nv[0], hbar[0]), na[0], Tolerance)

\* C2 amended: with N = 1 bin the geometric recursive unfolding yields
\* nv[0] = na[0] / (P[0] * hbar[0]), that is nv[0] * P[0] * hbar[0] = na[0] (up
\* to rounding), where P[0] = sqrt(edge[0]^2 - edge[1]^2) / edge[0] is below 1,
\* so that nv[0] is above na[0] / hbar[0].
C2_OneBin ==
    SP_OneBin =>
        /\ Close(FMul(nv[0], FMul(inter_prob[0], hbar[0])), na[0], Tolerance)
        /\ Close(RMul(FMul(inter_prob[0], inter_prob[0]), RSquare(bin_edges[0])),
                 RSub(RSquare(bin_edges[0]), RSquare(bin_edges[1])), Tolerance)
        /\ RLt(inter_prob[0], One)
        /\ RLt(na[0], FMul(nv[0], hbar[0]))

\* one bin unfolded over several measurements
C2_Witness ==
    /\ SP_OneBin
    /\ pc = "done"
    /\ Cardinality(DOMAIN vesicles) > 1
    /\ RLt(Zero, na[0])
    /\ OutOfRange(ind, nbins) # {}

\* --------------------------------------------- kernel-convolution unfolding
Min(a, b) == IF a < b THEN a ELSE b

\* sum over k = 0..min(ii, 11) of c[k] * na[ii-k]
TruncatedKernelSum(ii) ==
    LET lags == 0 .. Min(ii, Len(coeff) - 1)
    IN  SumOver([k \in lags |-> RMul(Coeff(k), na[ii - k])], lags)

\* C1: Saltikov.to_nv completes for every bin count N >= 1 and every bin i in
\* 0..N-1, i >= 12 included, with
\* nv[i] = (sum over k = 0..min(i,11) of c[k]*na[i-k]) / hbar[i]; the kernel is
\* never indexed past its 12th entry.
C1_KernelConvolution ==
    method = "Saltikov" =>
        /\ pc # "raised"
        /\ pc \in {"to_lnn", "done"} =>
              \A k \in Range(nbins) :
                  nv[k] = FMul(FInv(hbar[k]), TruncatedKernelSum(k))

\* ----------------------------------------------------------- direct density
\* C6: VSD.compute_nv, called with a positive reference volume on a
\* distribution whose bins are built and assigned, completes and sets
\* nv[i] = (number of measurements with index i) / reference_volume for every
\* i in 0..N-1.
C6_DirectDensity ==
    call.op = "compute_nv" =>
        /\ exc = "none"
        /\ \A k \in Range(nbins) : nv[k] = Rat(CountIn(ind, k), call.voi)

\* --------------------------------------------------------------- advisories
\* C7: advisories are never fatal: for each of the three strategies, a
\* construction that emitted an advisory (convention mismatch, empty bin under
\* the mean method, measurements below the smallest edge) does not raise and
\* ends Log-Transformed with na, hbar, nv and lnn populated; an empty bin has
\* hbar[i] = center[i] and the out-of-range measurements are in no na[i] and
\* no hbar[i].
C7_AdvisoriesNeverFatal ==
    advisories # <<>> =>
        /\ pc # "raised"
        /\ pc = "done" =>
              /\ Filled(na) /\ Filled(hbar) /\ Filled(nv) /\ Filled(lnn)
              /\ \A k \in Range(nbins) :
                    /\ na[k] = Rat(CountIn(ind, k), roi_area)
                    /\ (params.hbar_method = "mean" /\ Members(ind, k) = {}) =>
                          hbar[k] = bin_centers[k]
                    /\ (params.hbar_method = "mean" /\ Members(ind, k) # {}) =>
                          hbar[k] = NpMean(vesicles, Members(ind, k))

\* ----------------------------------------------------------------- registry
\* C10: after any sequence of apply_vsd_corr calls on a Sample or an Image,
\* calls whose constructor raises and calls that reuse a key included, vsd_num
\* is the length of vsd and every key of vsd_index maps to a position of vsd
\* that holds the correction of the latest call with that key.
C10_RegistryConsistent ==
    \A o \in Owners :
        LET r == registry[o]
        IN  /\ r.vsd_num = Cardinality(DOMAIN r.vsd)
            /\ \A key \in DOMAIN r.vsd_index :
                  /\ r.vsd_index[key] \in DOMAIN r.vsd
                  /\ r.vsd[r.vsd_index[key]].id = latest[o][key]

=============================================================================
